---- MODULE Spec2Model ----
(***************************************************************************)
(* Model of the executable code of the teaching corpus:                    *)
(*   - sample_project/src/calculator.py        (add, divide)               *)
(*   - tools/pytest/good_example.py            (class ShoppingCart,        *)
(*                                               fibonacci, is_prime,      *)
(*                                               process_payment)          *)
(*   - older_examples/fixed/pytest_testing_example_fixed.py                *)
(*                                              (class ShoppingCart)       *)
(*   - tools/bandit/good_example.py            (secure_file_operation)     *)
(*                                                                         *)
(* The corpus has no fixture-running harness: every file is a standalone   *)
(* example.  The state below is one ShoppingCart object plus the outcome   *)
(* of the last call made by a client; each action is one call.  accepted   *)
(* is a history variable: the price and quantity passed to the add_item    *)
(* calls that returned normally since the cart was created or last         *)
(* cleared.                                                                *)
(* call is the outcome of the last call of a module-level function.        *)
(* old_items and old_outcome are the same for one ShoppingCart of          *)
(* older_examples/fixed, whose prices are whole cents; discounts counts    *)
(* the apply_bulk_discount calls that changed its prices.                  *)
(*                                                                         *)
(* Python values are tagged records [t, s, n]: t is the Python type        *)
(* ("str", "int", "float", "bool", "none"), s the characters of a str,     *)
(* n the number.  Numbers are integers; a float price is a whole number    *)
(* of price units, which float() converts without loss.                    *)
(*                                                                         *)
(* A file path is a string over an alphabet whose letters are "/" and the  *)
(* name fragments "safe", "directory", "_other", ...: each fragment stands *)
(* for its characters, so that a prefix test on the sequence is the prefix *)
(* test on the characters.  The file system has no symbolic links.         *)
(***************************************************************************)
EXTENDS Integers, Sequences, FiniteSets, TLC

VARIABLES items, accepted, outcome, call, old_items, old_outcome, discounts

vars == <<items, accepted, outcome, call, old_items, old_outcome, discounts>>
oldVars == <<old_items, old_outcome, discounts>>

\* ---------------------------------------------------------------- bounds
MaxItems == 2       \* entries a cart holds in the model
MaxQty == 2         \* largest quantity a client passes
MaxPrice == 1       \* largest price a client passes
MaxNum == 5         \* largest magnitude of a calculator argument
MaxFibN == 24       \* largest magnitude of a fibonacci argument
MaxOldItems == 5    \* entries the older cart holds in the model
MaxDiscounts == 1   \* discounting calls made on the older cart
MaxPrimeN == 50     \* largest magnitude of an is_prime argument

\* ------------------------------------------------------------ Python values
PyStr(cs) == [t |-> "str", s |-> cs, n |-> 0]
PyInt(k) == [t |-> "int", s |-> <<>>, n |-> k]
PyFloat(k) == [t |-> "float", s |-> <<>>, n |-> k]
PyBool(b) == [t |-> "bool", s |-> <<>>, n |-> IF b THEN 1 ELSE 0]
None == [t |-> "none", s |-> <<>>, n |-> 0]

Whitespace == {" ", "\t", "\n"}

\* str.strip(): drop leading and trailing whitespace characters
RECURSIVE LStrip(_)
LStrip(cs) ==
    IF cs # <<>> /\ Head(cs) \in Whitespace THEN LStrip(Tail(cs)) ELSE cs

RECURSIVE RStrip(_)
RStrip(cs) ==
    IF cs # <<>> /\ cs[Len(cs)] \in Whitespace
    THEN RStrip(SubSeq(cs, 1, Len(cs) - 1))
    ELSE cs

strip(cs) == RStrip(LStrip(cs))

\* isinstance(v, str); isinstance(v, int) (bool is a subclass of int);
\* isinstance(v, (int, float))
IsStr(v) == v.t = "str"
IsInt(v) == v.t \in {"int", "bool"}
IsNumber(v) == v.t \in {"int", "bool", "float"}

\* ------------------------------------------------------------- calculator
\* The outcome of a function call: the function, its arguments, the
\* exception raised ("none" when it returned), the value returned as the
\* fraction num/den, and what the call executed on the way: the number of
\* "/" operations and of loop iterations.
FnReturned(fn, args, num, den, divisions, iterations) ==
    [fn |-> fn, args |-> args, raised |-> "none", num |-> num, den |-> den,
     divisions |-> divisions, iterations |-> iterations]

FnRaised(fn, args, exc, divisions, iterations) ==
    [fn |-> fn, args |-> args, raised |-> exc, num |-> 0, den |-> 1,
     divisions |-> divisions, iterations |-> iterations]

NoCall == FnReturned("none", <<>>, 0, 1, 0, 0)

\* add(a, b): a + b
add(a, b) == a + b

\* divide without the b == 0 guard: the "/" runs and Python raises
\* ZeroDivisionError.
divide_unguarded(a, b) ==
    IF b = 0
    THEN FnRaised("divide", <<PyInt(a), PyInt(b)>>, "ZeroDivisionError", 1, 0)
    ELSE FnReturned("divide", <<PyInt(a), PyInt(b)>>,
                    IF b < 0 THEN -a ELSE a, IF b < 0 THEN -b ELSE b, 1, 0)

\* divide(a, b): raises ValueError when b == 0, before any division; else
\* the quotient a / b, kept as the exact fraction num/den with den > 0.
divide(a, b) ==
    IF b = 0
    THEN FnRaised("divide", <<PyInt(a), PyInt(b)>>, "ValueError", 0, 0)
    ELSE FnReturned("divide", <<PyInt(a), PyInt(b)>>,
                    IF b < 0 THEN -a ELSE a, IF b < 0 THEN -b ELSE b, 1, 0)

\* -------------------------------------------------------------- fibonacci
\* The loop "for _ in range(2, n + 1): a, b = b, a + b", from the iteration
\* whose index is i: the final a and b and the iterations run.
RECURSIVE fib_loop(_, _, _, _, _)
fib_loop(a, b, i, n, iterations) ==
    IF i >= n + 1
    THEN [a |-> a, b |-> b, iterations |-> iterations]
    ELSE fib_loop(b, a + b, i + 1, n, iterations + 1)

\* fibonacci returning a instead of b after the loop
fibonacci_returns_a(v) ==
    IF ~IsInt(v) THEN FnRaised("fibonacci", <<v>>, "TypeError", 0, 0)
    ELSE IF v.n < 0 THEN FnRaised("fibonacci", <<v>>, "ValueError", 0, 0)
    ELSE IF v.n = 0 THEN FnReturned("fibonacci", <<v>>, 0, 1, 0, 0)
    ELSE IF v.n = 1 THEN FnReturned("fibonacci", <<v>>, 1, 1, 0, 0)
    ELSE LET r == fib_loop(0, 1, 2, v.n, 0)
         IN  FnReturned("fibonacci", <<v>>, r.a, 1, 0, r.iterations)

\* fibonacci(n): TypeError unless isinstance(n, int), ValueError for n < 0,
\* 0 and 1 returned before the loop, else b after the loop.
fibonacci(v) ==
    IF ~IsInt(v) THEN FnRaised("fibonacci", <<v>>, "TypeError", 0, 0)
    ELSE IF v.n < 0 THEN FnRaised("fibonacci", <<v>>, "ValueError", 0, 0)
    ELSE IF v.n = 0 THEN FnReturned("fibonacci", <<v>>, 0, 1, 0, 0)
    ELSE IF v.n = 1 THEN FnReturned("fibonacci", <<v>>, 1, 1, 0, 0)
    ELSE LET r == fib_loop(0, 1, 2, v.n, 0)
         IN  FnReturned("fibonacci", <<v>>, r.b, 1, 0, r.iterations)

\* --------------------------------------------------------------- is_prime
\* int(math.sqrt(n)) for n >= 0: the largest k with k * k <= n (math.sqrt is
\* exact to well within one unit for every n below 2^52)
RECURSIVE isqrt_from(_, _)
isqrt_from(k, n) == IF (k + 1) * (k + 1) > n THEN k ELSE isqrt_from(k + 1, n)

isqrt(n) == isqrt_from(0, n)

\* The loop "for i in range(3, stop, 2): if n % i == 0: return False",
\* from the iteration whose index is i: its verdict and the iterations run.
RECURSIVE prime_loop(_, _, _, _)
prime_loop(i, stop, n, iterations) ==
    IF i >= stop THEN [prime |-> TRUE, iterations |-> iterations]
    ELSE IF n % i = 0 THEN [prime |-> FALSE, iterations |-> iterations + 1]
    ELSE prime_loop(i + 2, stop, n, iterations + 1)

\* The outcome of an is_prime call: ret is the bool returned
PrimeReturned(v, ret, iterations) ==
    [fn |-> "is_prime", args |-> <<v>>, raised |-> "none", ret |-> ret,
     iterations |-> iterations]

PrimeRaised(v, exc) ==
    [fn |-> "is_prime", args |-> <<v>>, raised |-> exc, ret |-> FALSE,
     iterations |-> 0]

\* is_prime with the loop stopping at int(math.sqrt(n)), without the + 1
is_prime_stops_short(v) ==
    IF ~IsInt(v) THEN PrimeRaised(v, "TypeError")
    ELSE IF v.n <= 1 THEN PrimeReturned(v, FALSE, 0)
    ELSE IF v.n = 2 THEN PrimeReturned(v, TRUE, 0)
    ELSE IF v.n % 2 = 0 THEN PrimeReturned(v, FALSE, 0)
    ELSE LET r == prime_loop(3, isqrt(v.n), v.n, 0)
         IN  PrimeReturned(v, r.prime, r.iterations)

\* is_prime(n)
is_prime(v) ==
    IF ~IsInt(v) THEN PrimeRaised(v, "TypeError")
    ELSE IF v.n <= 1 THEN PrimeReturned(v, FALSE, 0)
    ELSE IF v.n = 2 THEN PrimeReturned(v, TRUE, 0)
    ELSE IF v.n % 2 = 0 THEN PrimeReturned(v, FALSE, 0)
    ELSE LET r == prime_loop(3, isqrt(v.n) + 1, v.n, 0)
         IN  PrimeReturned(v, r.prime, r.iterations)

\* -------------------------------------------------- secure_file_operation
\* str.split("/") of a path string: its components, empty ones included
RECURSIVE split_from(_, _, _)
split_from(cs, i, current) ==
    IF i > Len(cs) THEN <<current>>
    ELSE IF cs[i] = "/" THEN <<current>> \o split_from(cs, i + 1, <<>>)
    ELSE split_from(cs, i + 1, Append(current, cs[i]))

\* The working directory of the process, as components
Cwd == << <<"work">> >>

\* Path.resolve() without symbolic links: "." and empty components are
\* dropped, ".." drops the component before it (the root stays), and a
\* relative path starts from the working directory.
RECURSIVE normalise(_, _)
normalise(done, todo) ==
    IF todo = <<>> THEN done
    ELSE LET c == Head(todo) IN
         IF c = <<>> \/ c = <<".">> THEN normalise(done, Tail(todo))
         ELSE IF c = <<"..">>
         THEN normalise(IF done = <<>> THEN done
                        ELSE SubSeq(done, 1, Len(done) - 1), Tail(todo))
         ELSE normalise(Append(done, c), Tail(todo))

resolve(cs) ==
    IF cs # <<>> /\ cs[1] = "/"
    THEN normalise(<<>>, split_from(cs, 1, <<>>))
    ELSE normalise(Cwd, split_from(cs, 1, <<>>))

\* str(path) of a resolved path
RECURSIVE path_str(_)
path_str(components) ==
    IF components = <<>> THEN <<>>
    ELSE <<"/">> \o Head(components) \o path_str(Tail(components))

str_of_path(components) ==
    IF components = <<>> THEN <<"/">> ELSE path_str(components)

\* str.startswith(prefix)
startswith(cs, prefix) ==
    Len(cs) >= Len(prefix) /\ SubSeq(cs, 1, Len(prefix)) = prefix

\* pathlib.Path('/safe/directory')
AllowedDir == <<"/", "safe", "/", "directory">>

\* The files on disk and their content; open() of any other path, a
\* directory included, raises an OSError
FileContent ==
    [p \in { <<"/", "safe", "/", "directory", "/", "x">>,
             <<"/", "safe", "/", "directory", "_other", "/", "x">>,
             <<"/", "etc", "/", "x">> } |->
        IF p = <<"/", "safe", "/", "directory", "/", "x">> THEN <<"inside">>
        ELSE IF p = <<"/", "etc", "/", "x">> THEN <<"secret">>
        ELSE <<"sibling">>]

\* The outcome of a secure_file_operation call: the string returned, the
\* resolved path, and the path whose content was read (<<>> when none was)
FileOpReturned(filepath, ret, resolved, read) ==
    [fn |-> "secure_file_operation", args |-> <<PyStr(filepath)>>,
     raised |-> "none", ret |-> ret, resolved |-> resolved, read |-> read]

\* secure_file_operation(filepath): the ValueError of the path check and the
\* OSError of open() are caught and "" is returned.
secure_file_operation(filepath) ==
    LET path == resolve(filepath)
        allowed_dir == resolve(AllowedDir)
    IN  IF ~startswith(str_of_path(path), str_of_path(allowed_dir))
        THEN FileOpReturned(filepath, <<>>, path, <<>>)
        ELSE IF str_of_path(path) \in DOMAIN FileContent
        THEN FileOpReturned(filepath, FileContent[str_of_path(path)], path,
                            str_of_path(path))
        ELSE FileOpReturned(filepath, <<>>, path, <<>>)

\* -------------------------------------------------------- process_payment
\* float('nan'): a float for which every ordering comparison is False
PyNaN == [t |-> "float", s |-> <<"nan">>, n |-> 0]
IsNaN(v) == v.t = "float" /\ v.s = <<"nan">>

\* amount <= 0
LeZero(v) == ~IsNaN(v) /\ v.n <= 0

\* str.lower() on the letters the model uses
UpperCase == <<"A", "B", "C", "D", "E", "I", "L", "P", "R", "T", "Y">>
LowerCase == <<"a", "b", "c", "d", "e", "i", "l", "p", "r", "t", "y">>

lower_char(c) ==
    IF \E i \in 1..Len(UpperCase) : UpperCase[i] = c
    THEN LowerCase[CHOOSE i \in 1..Len(UpperCase) : UpperCase[i] = c]
    ELSE c

lower(cs) == [i \in 1..Len(cs) |-> lower_char(cs[i])]

Credit == <<"c", "r", "e", "d", "i", "t">>
Debit == <<"d", "e", "b", "i", "t">>
Paypal == <<"p", "a", "y", "p", "a", "l">>

\* The outcome of a process_payment call: ret is the dict returned, or None
PaymentReturned(args, ret) ==
    [fn |-> "process_payment", args |-> args, raised |-> "none", ret |-> ret]

PaymentRaised(args, exc) ==
    [fn |-> "process_payment", args |-> args, raised |-> exc, ret |-> None]

Receipt(transaction_id, method) ==
    [status |-> "success", transaction_id |-> transaction_id, method |-> method]

\* process_payment(amount, payment_method)
process_payment(amount, payment_method) ==
    LET args == <<amount, payment_method>> IN
    IF ~IsNumber(amount) \/ LeZero(amount)
    THEN PaymentRaised(args, "ValueError")
    ELSE IF ~IsStr(payment_method) \/ strip(payment_method.s) = <<>>
    THEN PaymentRaised(args, "ValueError")
    ELSE LET method == lower(strip(payment_method.s)) IN
         IF method = Credit THEN PaymentReturned(args, Receipt("CC12345", Credit))
         ELSE IF method = Debit THEN PaymentReturned(args, Receipt("DB67890", Debit))
         ELSE IF method = Paypal THEN PaymentReturned(args, Receipt("PP11111", Paypal))
         ELSE PaymentRaised(args, "ValueError")

\* ----------------------------------------------------------- ShoppingCart
\* get_total(): sum of price * quantity over self.items
RECURSIVE get_total(_)
get_total(its) ==
    IF its = <<>> THEN 0
    ELSE Head(its).price * Head(its).quantity + get_total(Tail(its))

\* get_item_count returning len(self.items): entries, not quantities
get_item_count_entries(its) == Len(its)

\* get_item_count(): sum of quantity over self.items
RECURSIVE get_item_count(_)
get_item_count(its) ==
    IF its = <<>> THEN 0
    ELSE Head(its).quantity + get_item_count(Tail(its))

\* add_item testing the name with "not item" instead of "not item.strip()":
\* a blank name passes.
AddItemRejects_blank_passes(item, price, quantity) ==
    \/ ~IsStr(item) \/ item.s = <<>>
    \/ ~IsNumber(price) \/ price.n < 0
    \/ ~IsInt(quantity) \/ quantity.n <= 0

\* The three validation guards of add_item, in the order of the code.
AddItemRejects(item, price, quantity) ==
    \/ ~IsStr(item) \/ strip(item.s) = <<>>
    \/ ~IsNumber(price) \/ price.n < 0
    \/ ~IsInt(quantity) \/ quantity.n <= 0

\* apply_bulk_discount comparing len(self.items), the number of entries,
\* with min_items
apply_bulk_discount_by_entries(its, min_items, rate_pct) ==
    IF Len(its) >= min_items
    THEN get_total(its) * (100 - rate_pct)
    ELSE get_total(its) * 100

\* apply_bulk_discount(min_items, discount_rate): the discounted total.
\* discount_rate is rate_pct / 100; the result is in hundredths of a price
\* unit, so that total * (1 - rate) stays an integer.
apply_bulk_discount(its, min_items, rate_pct) ==
    IF get_item_count(its) >= min_items
    THEN get_total(its) * (100 - rate_pct)
    ELSE get_total(its) * 100

\* -------------------------------------- ShoppingCart of older_examples/fixed
\* Prices are whole cents.  round(price, 2) leaves a whole-cent price as it
\* is, and so does round(total, 2) for a sum of whole-cent amounts.
round2(cents) == cents

\* a 20% discount instead of 10%
round_discounted_20(cents) == (8 * cents + 5) \div 10

\* round(price * 0.9, 2) for a price in cents: the nearest cent.  When
\* 0.9 * price lies exactly between two cents (price = 5, 15, ..., 85) the
\* IEEE double product is just above the midpoint and Python rounds up;
\* this holds for every price below 95 cents, which covers the model.
round_discounted(cents) == (9 * cents + 5) \div 10

\* get_total(): 0.0 for an empty cart, else round(sum of price * quantity, 2)
RECURSIVE old_sum(_)
old_sum(its) ==
    IF its = <<>> THEN 0
    ELSE Head(its).price * Head(its).quantity + old_sum(Tail(its))

old_get_total(its) == IF its = <<>> THEN 0 ELSE round2(old_sum(its))

\* get_item_count(): len(self.items)
old_get_item_count(its) == Len(its)

\* "not item": None, the empty string
Falsy(v) == v.t = "none" \/ (v.t = "str" /\ v.s = <<>>) \/ (IsNumber(v) /\ v.n = 0)

\* add_item's checks in the order of the code: the exception raised, or
\* "none".  Comparing a non-number with 0 raises TypeError.
old_add_item_raises(item, price, quantity) ==
    IF Falsy(item) \/ ~IsStr(item) THEN "ValueError"
    ELSE IF ~IsNumber(price) THEN "TypeError"
    ELSE IF price.n < 0 THEN "ValueError"
    ELSE IF ~IsNumber(quantity) THEN "TypeError"
    ELSE IF quantity.n <= 0 THEN "ValueError"
    ELSE "none"

\* apply_bulk_discount discounting when the quantities, not the entries,
\* add up to 5
old_apply_bulk_discount_by_quantity(its) ==
    IF get_item_count(its) >= 5
    THEN [i \in 1..Len(its) |->
            [its[i] EXCEPT !.price = round_discounted(its[i].price)]]
    ELSE its

\* apply_bulk_discount(): with 5 entries or more, every price becomes
\* round(price * 0.9, 2); the new value of self.items
old_apply_bulk_discount(its) ==
    IF Len(its) >= 5
    THEN [i \in 1..Len(its) |->
            [its[i] EXCEPT !.price = round_discounted(its[i].price)]]
    ELSE its

OldItemArgs == { PyStr(<<>>), PyStr(<<"a", " ">>), None }
OldPriceArgs == { PyInt(-1), PyFloat(1), PyFloat(10), None }
OldQuantityArgs == { PyInt(0), PyInt(1), PyInt(2) }

\* The outcome of a call on the older cart; before is get_total() as it
\* was when the call started.
OldOutcome(op, raised, ret, before) ==
    [op |-> op, raised |-> raised, ret |-> ret, before |-> before]

OldNoOutcome == OldOutcome("init", "none", 0, 0)

\* ------------------------------------------------------------ client inputs
ItemArgs ==
    { PyStr(<<>>), PyStr(<<" ">>), PyStr(<<" ", "b", " ">>), None }

PriceArgs ==
    { PyFloat(k) : k \in 1..MaxPrice } \cup { PyFloat(-1), PyInt(0), None }

QuantityArgs ==
    { PyInt(k) : k \in 0..MaxQty } \cup { PyFloat(1) }

MinItemsArgs == 1..(MaxItems + 1)
RateArgs == {10, 50}
NumberArgs == -MaxNum..MaxNum

AmountArgs ==
    { PyInt(-100), PyInt(0), PyInt(100), PyFloat(-1), PyFloat(0), PyFloat(50),
      PyNaN, PyBool(TRUE), None }

PaymentMethodArgs ==
    { PyStr(Credit), PyStr(Debit), PyStr(Paypal),
      PyStr(<<" ", "C", "r", "e", "d", "i", "t", " ">>),
      PyStr(<<"P", "A", "Y", "P", "A", "L", "\n">>),
      PyStr(<<"b", "i", "t", "c", "o", "i", "n">>),
      PyStr(<<"c", "r", "e", "d", "i", "t", "s">>),
      PyStr(<<>>), PyStr(<<" ", "\t">>), None, PyInt(1) }

FilepathArgs ==
    { <<"/", "safe", "/", "directory", "/", "x">>,
      <<"/", "safe", "/", "directory", "_other", "/", "x">>,
      <<"/", "safe", "/", "directory", "_other", "/", "..", "/", "directory",
        "/", "x">>,
      <<"/", "etc", "/", "x">>,
      <<"/", "safe", "/", "directory", "/", "..", "/", "..", "/", "etc", "/",
        "x">>,
      <<"/", "safe", "/", "directory", "/", ".", "/", "x">>,
      <<"/", "safe", "/", "directory", "/", "missing">>,
      <<"/", "safe", "/", "directory">>,
      <<"..", "/", "safe", "/", "directory", "/", "x">>,
      <<"x">> }

PrimeArgs ==
    { PyInt(k) : k \in -MaxPrimeN..MaxPrimeN }
        \cup { PyBool(TRUE), PyBool(FALSE), PyFloat(7), None }

FibArgs ==
    { PyInt(k) : k \in -MaxFibN..MaxFibN }
        \cup { PyFloat(k) : k \in -MaxFibN..MaxFibN }
        \cup { PyBool(TRUE), PyBool(FALSE), PyStr(<<"3">>), None }

\* The outcome of a call: the method, its arguments as passed, the exception
\* it raised ("none" when it returned) and the value it returned as the
\* fraction ret/den.
Returned(op, args, ret, den) ==
    [op |-> op, args |-> args, raised |-> "none", ret |-> ret, den |-> den]

Raised(op, args, exc) ==
    [op |-> op, args |-> args, raised |-> exc, ret |-> 0, den |-> 1]

NoOutcome == Returned("init", <<>>, 0, 1)

\* ------------------------------------------------------------------ actions
\* ShoppingCart() : self.items = []
Init ==
    /\ items = <<>>
    /\ accepted = <<>>
    /\ outcome = NoOutcome
    /\ call = NoCall
    /\ old_items = <<>>
    /\ old_outcome = OldNoOutcome
    /\ discounts = 0

\* cart.add_item(item, price, quantity)
AddItem ==
    \E item \in ItemArgs, price \in PriceArgs, quantity \in QuantityArgs :
        IF AddItemRejects(item, price, quantity)
        THEN /\ outcome' = Raised("add_item", <<item, price, quantity>>,
                                   "ValueError")
             /\ UNCHANGED <<items, accepted, call, oldVars>>
        ELSE /\ Len(items) < MaxItems
             /\ items' = Append(items, [item |-> strip(item.s),
                                        price |-> price.n,
                                        quantity |-> quantity.n])
             /\ accepted' = Append(accepted, [price |-> price.n,
                                              quantity |-> quantity.n])
             /\ outcome' = Returned("add_item", <<item, price, quantity>>,
                                     0, 1)
             /\ UNCHANGED <<call, oldVars>>

\* cart.get_total()
GetTotal ==
    /\ outcome' = Returned("get_total", <<>>, get_total(items), 1)
    /\ UNCHANGED <<items, accepted, call, oldVars>>

\* cart.get_item_count()
GetItemCount ==
    /\ outcome' = Returned("get_item_count", <<>>, get_item_count(items), 1)
    /\ UNCHANGED <<items, accepted, call, oldVars>>

\* cart.apply_bulk_discount(min_items, discount_rate)
ApplyBulkDiscount ==
    \E min_items \in MinItemsArgs, rate_pct \in RateArgs :
        /\ outcome' = Returned("apply_bulk_discount",
                                <<PyInt(min_items), PyInt(rate_pct)>>,
                                apply_bulk_discount(items, min_items, rate_pct),
                                100)
        /\ UNCHANGED <<items, accepted, call, oldVars>>

\* cart.clear()
Clear ==
    /\ items' = <<>>
    /\ accepted' = <<>>
    /\ outcome' = Returned("clear", <<>>, 0, 1)
    /\ UNCHANGED <<call, oldVars>>

Next ==
    \/ AddItem
    \/ GetTotal
    \/ GetItemCount
    \/ ApplyBulkDiscount
    \/ Clear

Spec == Init /\ [][Next]_vars

\* ------------------------------------------------- module-level functions
\* calculator.divide(a, b)
Divide ==
    \E a \in NumberArgs, b \in NumberArgs :
        /\ call' = divide(a, b)
        /\ UNCHANGED <<items, accepted, outcome, oldVars>>

\* calculator.add(a, b)
Add ==
    \E a \in NumberArgs, b \in NumberArgs :
        /\ call' = FnReturned("add", <<PyInt(a), PyInt(b)>>, add(a, b), 1, 0, 0)
        /\ UNCHANGED <<items, accepted, outcome, oldVars>>

\* good_example.fibonacci(n)
Fibonacci ==
    \E v \in FibArgs :
        /\ call' = fibonacci(v)
        /\ UNCHANGED <<items, accepted, outcome, oldVars>>

\* good_example.process_payment(amount, payment_method)
ProcessPayment ==
    \E amount \in AmountArgs, payment_method \in PaymentMethodArgs :
        /\ call' = process_payment(amount, payment_method)
        /\ UNCHANGED <<items, accepted, outcome, oldVars>>

\* good_example.is_prime(n)
IsPrime ==
    \E v \in PrimeArgs :
        /\ call' = is_prime(v)
        /\ UNCHANGED <<items, accepted, outcome, oldVars>>

\* bandit good_example.secure_file_operation(filepath)
SecureFileOperation ==
    \E filepath \in FilepathArgs :
        /\ call' = secure_file_operation(filepath)
        /\ UNCHANGED <<items, accepted, outcome, oldVars>>

NextFn ==
    \/ Divide
    \/ Add
    \/ Fibonacci
    \/ ProcessPayment
    \/ IsPrime
    \/ SecureFileOperation

SpecFn == Init /\ [][NextFn]_vars

\* ------------------------------------------------------------- type checks
TypeOK ==
    /\ items \in Seq([item : Seq({"a", "b", " "}), price : Int, quantity : Int])
    /\ Len(items) <= MaxItems
    /\ Len(accepted) = Len(items)
    /\ outcome.raised \in {"none", "ValueError"}

\* -------------------------------------- ShoppingCart of older_examples/fixed
\* cart.add_item(item, price, quantity)
OldAddItem ==
    \E item \in OldItemArgs, price \in OldPriceArgs, quantity \in OldQuantityArgs :
        LET exc == old_add_item_raises(item, price, quantity) IN
        /\ IF exc # "none"
           THEN UNCHANGED old_items
           ELSE /\ Len(old_items) < MaxOldItems
                /\ old_items' = Append(old_items,
                                       [item |-> strip(item.s),
                                        price |-> round2(price.n),
                                        quantity |-> quantity.n])
        /\ old_outcome' = OldOutcome("add_item", exc, 0, old_get_total(old_items))
        /\ UNCHANGED <<items, accepted, outcome, call, discounts>>

\* cart.get_total()
OldGetTotal ==
    /\ old_outcome' = OldOutcome("get_total", "none", old_get_total(old_items),
                                 old_get_total(old_items))
    /\ UNCHANGED <<items, accepted, outcome, call, old_items, discounts>>

\* cart.get_item_count()
OldGetItemCount ==
    /\ old_outcome' = OldOutcome("get_item_count", "none",
                                 old_get_item_count(old_items),
                                 old_get_total(old_items))
    /\ UNCHANGED <<items, accepted, outcome, call, old_items, discounts>>

\* cart.apply_bulk_discount()
OldApplyBulkDiscount ==
    LET new_items == old_apply_bulk_discount(old_items) IN
    /\ new_items # old_items => discounts < MaxDiscounts
    /\ old_items' = new_items
    /\ discounts' = IF new_items # old_items THEN discounts + 1 ELSE discounts
    /\ old_outcome' = OldOutcome("apply_bulk_discount", "none", 0,
                                 old_get_total(old_items))
    /\ UNCHANGED <<items, accepted, outcome, call>>

\* cart.clear()
OldClear ==
    /\ old_items' = <<>>
    /\ old_outcome' = OldOutcome("clear", "none", 0, old_get_total(old_items))
    /\ UNCHANGED <<items, accepted, outcome, call, discounts>>

NextOld ==
    \/ OldAddItem
    \/ OldGetTotal
    \/ OldGetItemCount
    \/ OldApplyBulkDiscount
    \/ OldClear

SpecOld == Init /\ [][NextOld]_vars

\* ------------------------------------------------------------------- C14
\* C14: calculator.divide(a, b) raises ValueError for every a when b = 0 and
\* evaluates no "/" in that case; for every b # 0 it returns the quotient
\* a / b (num/den = a/b) without raising.
C14_DivideGuardsZero ==
    call.fn = "divide" =>
        LET a == call.args[1].n
            b == call.args[2].n
        IN  IF b = 0
            THEN call.raised = "ValueError" /\ call.divisions = 0
            ELSE /\ call.raised = "none"
                 /\ call.den # 0
                 /\ call.num * b = a * call.den

\* divide(5, 0) raised, as in test_divide_by_zero
C14_WitnessZero ==
    /\ call.fn = "divide"
    /\ call.args = <<PyInt(5), PyInt(0)>>
    /\ call.raised = "ValueError"

\* ------------------------------------------------------------------- C15
BlankName(v) == v.t = "str" /\ \A i \in 1..Len(v.s) : v.s[i] \in {" ", "\t", "\n"}
NotAString(v) == v.t # "str"
BadPrice(v) == v.t \notin {"int", "float", "bool"} \/ v.n < 0
BadQuantity(v) == ~(v.t \in {"int", "bool"} /\ v.n >= 1)

C15_Rejected ==
    /\ outcome.op = "add_item"
    /\ \/ NotAString(outcome.args[1]) \/ BlankName(outcome.args[1])
       \/ BadPrice(outcome.args[2])
       \/ BadQuantity(outcome.args[3])

\* C15: add_item raises ValueError whenever the name is empty, blank or not
\* a string, the price is negative or not a number, or the quantity is not
\* a positive integer; and an add_item that raised leaves the items, and so
\* get_total and get_item_count, as they were before the call.
C15_AddItemValidates ==
    /\ [](C15_Rejected => outcome.raised = "ValueError")
    /\ [][(outcome'.op = "add_item" /\ outcome'.raised # "none") =>
            /\ items' = items
            /\ get_total(items') = get_total(items)
            /\ get_item_count(items') = get_item_count(items)]_vars

\* a blank name was rejected on a cart that already holds an item
C15_WitnessBlankRejected ==
    /\ outcome.op = "add_item"
    /\ outcome.args[1] = PyStr(<<" ">>)
    /\ ~BadPrice(outcome.args[2])
    /\ ~BadQuantity(outcome.args[3])
    /\ outcome.raised = "ValueError"
    /\ Len(items) > 0

\* ------------------------------------------------------------------- C16
\* Sums over the arguments of the accepted add_item calls, last call first.
RECURSIVE C16_AcceptedTotal(_)
C16_AcceptedTotal(k) ==
    IF k = 0 THEN 0
    ELSE accepted[k].price * accepted[k].quantity + C16_AcceptedTotal(k - 1)

RECURSIVE C16_AcceptedCount(_)
C16_AcceptedCount(k) ==
    IF k = 0 THEN 0 ELSE accepted[k].quantity + C16_AcceptedCount(k - 1)

\* C16: after any sequence of add_item (accepted or rejected),
\* apply_bulk_discount and clear calls, get_total is the sum of
\* price * quantity and get_item_count the sum of quantities over the items
\* accepted since creation or the last clear; both are 0 for a new or
\* just-cleared cart.
C16_TotalsMatchAccepted ==
    /\ get_total(items) = C16_AcceptedTotal(Len(accepted))
    /\ get_item_count(items) = C16_AcceptedCount(Len(accepted))
    /\ outcome.op = "get_total" =>
            outcome.ret = C16_AcceptedTotal(Len(accepted)) * outcome.den
    /\ outcome.op = "get_item_count" =>
            outcome.ret = C16_AcceptedCount(Len(accepted)) * outcome.den
    /\ outcome.op \in {"init", "clear"} =>
            get_total(items) = 0 /\ get_item_count(items) = 0

\* get_item_count returned 3 for two accepted items of quantities 2 and 1
C16_WitnessTwoItems ==
    /\ outcome.op = "get_item_count"
    /\ outcome.ret = 3
    /\ Len(accepted) = 2
    /\ accepted[1].quantity = 2
    /\ get_total(items) > 0

\* ------------------------------------------------------------------- C17
\* C17: apply_bulk_discount(min_items, discount_rate) leaves the cart as it
\* was (items, get_total, get_item_count), and returns
\* get_total * (1 - discount_rate) when the sum of quantities is at least
\* min_items, otherwise get_total.
C17_BulkDiscountPure ==
    /\ [](outcome.op = "apply_bulk_discount" =>
            LET min_items == outcome.args[1].n
                rate_pct == outcome.args[2].n
                total == C16_AcceptedTotal(Len(accepted))
                count == C16_AcceptedCount(Len(accepted))
            IN  /\ outcome.raised = "none"
                /\ outcome.den > 0
                /\ outcome.ret * 100 =
                     outcome.den * (IF count >= min_items
                                    THEN total * (100 - rate_pct)
                                    ELSE total * 100))
    /\ [][outcome'.op = "apply_bulk_discount" =>
            /\ items' = items
            /\ get_total(items') = get_total(items)
            /\ get_item_count(items') = get_item_count(items)]_vars

\* one entry of quantity 2 reached min_items = 2 and was discounted
C17_WitnessDiscounted ==
    /\ outcome.op = "apply_bulk_discount"
    /\ outcome.args[1].n = 2
    /\ Len(items) = 1
    /\ items[1].quantity = 2
    /\ items[1].price > 0
    /\ outcome.ret < get_total(items) * outcome.den

C18_TenCentPrices(its) == \A i \in 1..Len(its) : its[i].price % 10 = 0

C19_NoDiscountBelowFive ==
    [][old_outcome'.op = "apply_bulk_discount" =>
        /\ Len(old_items) < 5 =>
                /\ old_items' = old_items
                /\ old_get_total(old_items') = old_get_total(old_items)
        /\ Len(old_items') = Len(old_items)
        /\ \A i \in 1..Len(old_items) :
                /\ old_items'[i].item = old_items[i].item
                /\ old_items'[i].quantity = old_items[i].quantity]_vars

\* apply_bulk_discount ran on 4 entries holding 8 units and the total stayed
C19_WitnessFourEntries ==
    /\ old_outcome.op = "apply_bulk_discount"
    /\ Len(old_items) = 4
    /\ \A i \in 1..4 : old_items[i].quantity = 2 /\ old_items[i].price = 10
    /\ old_outcome.before = old_get_total(old_items)

\* ------------------------------------------------------------------- C20
\* The Fibonacci numbers: F(0) = 0, F(1) = 1, F(n) = F(n-1) + F(n-2)
RECURSIVE C20_F(_)
C20_F(n) == IF n = 0 THEN 0 ELSE IF n = 1 THEN 1 ELSE C20_F(n - 1) + C20_F(n - 2)

C20_IsInteger(v) == v.t \in {"int", "bool"}

\* What the claim says of a call, given the iterations it allows for n
C20_Holds(iterationsFor(_)) ==
    call.fn = "fibonacci" =>
        LET v == call.args[1] IN
        IF ~C20_IsInteger(v) THEN call.raised = "TypeError"
        ELSE IF v.n < 0 THEN call.raised = "ValueError"
        ELSE /\ call.raised = "none"
             /\ call.den # 0
             /\ call.num = C20_F(v.n) * call.den
             /\ call.iterations = iterationsFor(v.n)

C20_NMinusOne(n) == n - 1
C20_NMinusOneFromOne(n) == IF n >= 1 THEN n - 1 ELSE 0

\* The claim as stated: F(n) for n >= 0, ValueError for negative integers,
\* TypeError for non-integers, and n - 1 loop iterations.
C20_AsStated == C20_Holds(C20_NMinusOne)

\* C20 (amended): fibonacci(n) returns F(n) for every integer n >= 0, raises
\* ValueError for every negative integer and TypeError for every
\* non-integer input; its loop runs n - 1 iterations for n >= 1 and none
\* for n = 0.
C20_FibonacciCorrect == C20_Holds(C20_NMinusOneFromOne)

\* fibonacci(10) returned 55 after 9 iterations, as in test_fibonacci_sequence
C20_WitnessTen ==
    /\ call.fn = "fibonacci"
    /\ call.args = <<PyInt(10)>>
    /\ call.raised = "none"
    /\ call.num = 55
    /\ call.iterations = 9

\* ------------------------------------------------------------------- C21
C21_Normalised(v) == lower(strip(v.s))
C21_Supported(v) == v.t = "str" /\ C21_Normalised(v) \in {Credit, Debit, Paypal}

\* amount > 0: a number above zero; False for NaN
C21_Positive(v) == v.t \in {"int", "float", "bool"} /\ ~IsNaN(v) /\ v.n > 0

C21_Succeeded ==
    /\ call.raised = "none"
    /\ call.ret # None
    /\ call.ret.status = "success"
    /\ call.ret.method = C21_Normalised(call.args[2])

\* C21: process_payment returns a record with status "success" and method
\* equal to the stripped, lower-cased payment_method exactly when
\* amount > 0 and that method is credit, debit or paypal; in every other
\* case it raises ValueError and returns nothing (never None).
C21_PaymentExactlyWhenValid ==
    call.fn = "process_payment" =>
        IF C21_Positive(call.args[1]) /\ C21_Supported(call.args[2])
        THEN C21_Succeeded
        ELSE call.raised = "ValueError"

\* The same, for amounts that are not NaN
C21_PaymentExactlyWhenValidOrdered ==
    (call.fn = "process_payment" /\ ~IsNaN(call.args[1])) =>
        IF C21_Positive(call.args[1]) /\ C21_Supported(call.args[2])
        THEN C21_Succeeded
        ELSE call.raised = "ValueError"

\* ------------------------------------------------------------------- C25
C25_HasDivisor(n) == \E d \in 2..(n - 1) : n % d = 0

\* C25: is_prime(n) returns True exactly for the integers n > 1 that have no
\* divisor d with 1 < d < n (False for every n <= 1, True for 2), for every
\* integer n of the range; the trial division up to the integer square
\* root never skips a divisor that would make n composite.
C25_IsPrimeExact ==
    (call.fn = "is_prime" /\ call.args[1].t \in {"int", "bool"}) =>
        LET n == call.args[1].n IN
        /\ call.raised = "none"
        /\ call.ret = (n > 1 /\ ~C25_HasDivisor(n))

\* is_prime(49) found the divisor 7 = int(sqrt(49)) in its third iteration
C25_WitnessSquare ==
    /\ call.fn = "is_prime"
    /\ call.args = <<PyInt(49)>>
    /\ call.ret = FALSE
    /\ call.iterations = 3

\* ------------------------------------------------------------------- C26
\* The resolved path lies inside /safe/directory: its first two components
\* are "safe" and "directory".
C26_Inside(components) ==
    /\ Len(components) >= 2
    /\ components[1] = <<"safe">>
    /\ components[2] = <<"directory">>

\* C26: secure_file_operation reads and returns a file's content only when
\* the resolved path lies inside /safe/directory; for every path that
\* resolves outside it, siblings such as /safe/directory_other/x included,
\* it reads nothing and returns the empty string.
C26_ReadsOnlyInside ==
    call.fn = "secure_file_operation" =>
        /\ call.read # <<>> => C26_Inside(call.resolved)
        /\ ~C26_Inside(call.resolved) => call.ret = <<>> /\ call.read = <<>>

\* The same for paths that do not resolve into a sibling whose name begins
\* with "directory"
C26_ReadsOnlyInsideNoSibling ==
    (/\ call.fn = "secure_file_operation"
     /\ ~(~C26_Inside(call.resolved)
          /\ startswith(str_of_path(call.resolved), AllowedDir))) =>
        /\ call.read # <<>> => C26_Inside(call.resolved)
        /\ ~C26_Inside(call.resolved) => call.ret = <<>> /\ call.read = <<>>

====
